---- MODULE Spec2Model ----
(***************************************************************************)
(* The todo service of examples/peewee_example.py: two peewee tables       *)
(* (User, Todo), two marshmallow schemas (UserSchema, TodoSchema), the     *)
(* basic-auth decorator and the five Flask handlers.                       *)
(*                                                                         *)
(* Strings that the code inspects character by character (emails) are      *)
(* sequences of one-character strings; the others are TLA+ strings.        *)
(* A JSON payload is a record whose field `keys` is the set of keys the    *)
(* mapping has; the value of a key that is absent is never read.           *)
(***************************************************************************)
EXTENDS Integers, Sequences, FiniteSets, TLC

VARIABLES users, todos, now, last, prev, unsaved, conns, leaked, threads

vars == <<users, todos, now, last, prev, unsaved, conns, leaked, threads>>

(***************************************************************************)
(* Bounds of the model.                                                    *)
(***************************************************************************)
MaxTodos == 2
MaxTime == 1
MaxUnsaved == 2
MaxThreads == 2

(***************************************************************************)
(* Inputs.                                                                 *)
(***************************************************************************)
EmailPlain == <<"a", "@", "b", ".", "c", "c">>
EmailShouting == <<" ", "A", "@", "B", ".", "c", "c", " ">>
EmailOther == <<"x", "@", "b", ".", "c", "c">>
EmailNoAt == <<"a", "b", ".", "c", "c">>

EmailInputs == {EmailPlain, EmailShouting, EmailOther, EmailNoAt}

PasswordInputs == {"secret1", "short", "0123456789012345678901234567890123456"}

AuthPasswords == {"secret1", "hunter22"}

ContentInputs == {"buy milk", "feed cat"}

RegisterPayloads ==
    {[keys |-> {"email", "password"}, email |-> e, password |-> p] :
        e \in EmailInputs, p \in PasswordInputs}
    \cup {[keys |-> {"email"}, email |-> EmailPlain, password |-> ""],
          [keys |-> {"password"}, email |-> <<>>, password |-> "secret1"],
          [keys |-> {"password"}, email |-> <<>>, password |-> "short"],
          [keys |-> {}, email |-> <<>>, password |-> ""]}

TodoPayloads ==
    {[keys |-> {"content", "done"}, content |-> c, done |-> d] :
        c \in ContentInputs, d \in BOOLEAN}
    \cup {[keys |-> {"content"}, content |-> c, done |-> FALSE] : c \in ContentInputs}
    \cup {[keys |-> {"done"}, content |-> "", done |-> TRUE],
          [keys |-> {}, content |-> "", done |-> FALSE]}

NoAuth == [present |-> FALSE, username |-> <<>>, password |-> ""]

AuthInputs ==
    {NoAuth} \cup
    {[present |-> TRUE, username |-> e, password |-> p] :
        e \in {EmailPlain, EmailOther}, p \in AuthPasswords}
    \cup {[present |-> TRUE, username |-> EmailShouting, password |-> "secret1"]}

NoJson == [keys |-> {}]

(***************************************************************************)
(* str.lower() and str.strip() on the characters the inputs use.           *)
(***************************************************************************)
lower_char(c) ==
    CASE c = "A" -> "a"
      [] c = "B" -> "b"
      [] c = "C" -> "c"
      [] c = "X" -> "x"
      [] OTHER -> c

lower(s) == [i \in 1..Len(s) |-> lower_char(s[i])]

IsSpace(c) == c = " "

RECURSIVE lstrip(_)
lstrip(s) == IF s # <<>> /\ IsSpace(Head(s)) THEN lstrip(Tail(s)) ELSE s

RECURSIVE rstrip(_)
rstrip(s) ==
    IF s # <<>> /\ IsSpace(s[Len(s)]) THEN rstrip(SubSeq(s, 1, Len(s) - 1)) ELSE s

strip(s) == rstrip(lstrip(s))

(***************************************************************************)
(* validate.Email: the value has an "@"; the part before the last "@" is   *)
(* dot-separated atoms of word characters; the part after it is one or     *)
(* more labels, each followed by a dot, and a top-level name of at least   *)
(* two characters.  The pattern ignores case.                              *)
(***************************************************************************)
WordChars == {"a", "b", "c", "x", "A", "B", "C", "X"}

IsWord(s) == Len(s) > 0 /\ \A i \in 1..Len(s) : s[i] \in WordChars

Positions(s, c) == {i \in 1..Len(s) : s[i] = c}

Max(S) == CHOOSE m \in S : \A n \in S : n <= m

RECURSIVE SplitOn(_, _)
SplitOn(s, c) ==
    IF Positions(s, c) = {}
    THEN <<s>>
    ELSE LET p == Max(Positions(s, c))
         IN Append(SplitOn(SubSeq(s, 1, p - 1), c), SubSeq(s, p + 1, Len(s)))

UserPartOk(u) ==
    LET atoms == SplitOn(u, ".")
    IN \A i \in 1..Len(atoms) : IsWord(atoms[i])

DomainPartOk(d) ==
    LET labels == SplitOn(d, ".")
    IN /\ Len(labels) >= 2
       /\ \A i \in 1..Len(labels) : IsWord(labels[i])
       /\ Len(labels[Len(labels)]) >= 2

validate_Email(value) ==
    IF value = <<>> \/ Positions(value, "@") = {}
    THEN FALSE
    ELSE LET at == Max(Positions(value, "@"))
         IN /\ UserPartOk(SubSeq(value, 1, at - 1))
            /\ DomainPartOk(SubSeq(value, at + 1, Len(value)))

(***************************************************************************)
(* validate.Length(min=6, max=36).                                         *)
(***************************************************************************)
MinPasswordLen == 6
MaxPasswordLen == 36

validate_Length(value) == Len(value) >= MinPasswordLen /\ Len(value) <= MaxPasswordLen

(***************************************************************************)
(* UserSchema.  load: the pre_load hook, then every field's checks, the    *)
(* messages collected per field.  A load ends in one of three ways: the    *)
(* validated data, a ValidationError with its messages, or the KeyError    *)
(* the hook raises when the payload has no "email" key.                    *)
(***************************************************************************)
UserSchemaFields == {"id", "email", "password", "joined_on"}
\* mutant of UserSchemaLoadOnly: password is not declared load_only
UserSchemaLoadOnly_none == {}

UserSchemaLoadOnly == {"password"}
UserSchemaDumpOnly == {"id", "joined_on"}

MsgRequired == "Missing data for required field."
MsgEmail == "Not a valid email address"
MsgLength == "Length must be between 6 and 36."
NoError == ""

\* mutant of process_input: the email is trimmed and not lower-cased
process_input_keeps_case(data) == [data EXCEPT !.email = strip(data.email)]

process_input(data) == [data EXCEPT !.email = strip(lower(data.email))]

UserSchema_field_error(data, f) ==
    CASE f = "email" ->
            IF "email" \notin data.keys THEN MsgRequired
            ELSE IF ~validate_Email(data.email) THEN MsgEmail
            ELSE NoError
      [] f = "password" ->
            IF "password" \notin data.keys THEN MsgRequired
            ELSE IF ~validate_Length(data.password) THEN MsgLength
            ELSE NoError

UserSchema_validate(data) ==
    LET loadable == UserSchemaFields \ UserSchemaDumpOnly
        bad == {f \in loadable : UserSchema_field_error(data, f) # NoError}
    IN [f \in bad |-> <<UserSchema_field_error(data, f)>>]

UserSchema_load(json) ==
    IF "email" \notin json.keys
    THEN [outcome |-> "KeyError"]
    ELSE LET data == process_input(json)
             messages == UserSchema_validate(data)
         IN IF DOMAIN messages # {}
            THEN [outcome |-> "ValidationError", messages |-> messages]
            ELSE [outcome |-> "ok",
                  data |-> [email |-> data.email, password |-> data.password]]

UserSchema_wrap(data, many) ==
    LET key == IF many THEN "users" ELSE "user"
    IN [k \in {key} |-> data]

\* dump of one user by a UserSchema built with the given `exclude`
UserSchema_dump(user, exclude) ==
    LET dumped == (UserSchemaFields \ UserSchemaLoadOnly) \ exclude
    IN UserSchema_wrap([f \in dumped |-> user[f]], FALSE)

(***************************************************************************)
(* TodoSchema.  A loaded Todo has no id and no owner yet: id 0, user 0.    *)
(***************************************************************************)
NestedUserExclude == {"joined_on", "password"}

None == [none |-> TRUE]

\* mutant of TodoSchema_validate: content is not required
TodoSchema_validate_nothing(json) == [f \in {} |-> <<MsgRequired>>]

TodoSchema_validate(json) ==
    LET bad == {f \in {"content"} : f \notin json.keys}
    IN [f \in bad |-> <<MsgRequired>>]

TodoSchema_deserialize(json) ==
    [content |-> json.content,
     is_done |-> IF "done" \in json.keys THEN json.done ELSE FALSE]

\* mutant of make_object: the loaded is_done is dropped
make_object_not_done(data, utcnow) ==
    [id |-> 0, content |-> data.content, is_done |-> FALSE, user |-> 0, posted_on |-> utcnow]

make_object(data, utcnow) ==
    IF DOMAIN data = {}
    THEN None
    ELSE [id |-> 0, content |-> data.content, is_done |-> data.is_done,
          user |-> 0, posted_on |-> utcnow]

TodoSchema_load(json, utcnow) ==
    LET messages == TodoSchema_validate(json)
    IN IF DOMAIN messages # {}
       THEN [outcome |-> "ValidationError", messages |-> messages]
       ELSE [outcome |-> "ok", todo |-> make_object(TodoSchema_deserialize(json), utcnow)]

TodoSchema_wrap(data, many) ==
    LET key == IF many THEN "todos" ELSE "todo"
    IN [k \in {key} |-> data]

\* the fields of one todo, its owner read from the users table; the nested
\* schema's dump runs its own post_dump hook, so the owner's fields come
\* wrapped under "user" once more; a todo without owner dumps None for it
TodoSchema_serialize(todo, us) ==
    [id |-> todo.id,
     done |-> todo.is_done,
     user |-> IF todo.user = 0 THEN None
              ELSE UserSchema_dump(us[todo.user], NestedUserExclude),
     content |-> todo.content,
     posted_on |-> todo.posted_on]

todo_schema_dump(todo, us) == TodoSchema_wrap(TodoSchema_serialize(todo, us), FALSE)

todos_schema_dump(rows, us) ==
    TodoSchema_wrap([i \in 1..Len(rows) |-> TodoSchema_serialize(rows[i], us)], TRUE)

(***************************************************************************)
(* Responses.  A handler that raises is answered by the HTTP layer with    *)
(* status 500: an unhandled fault.                                         *)
(***************************************************************************)
NoHeaders == [h \in {} |-> ""]

Response(status, body) == [status |-> status, body |-> body, headers |-> NoHeaders]

Fault(exception) == Response(500, [fault |-> exception])

(***************************************************************************)
(* The tables.  users and todos are sequences: the row with id i is at     *)
(* index i (ids are assigned 1, 2, ... and no row is ever deleted).        *)
(***************************************************************************)
User_select(us, email) == {i \in 1..Len(us) : us[i].email = email}

User_get(us, email) == us[CHOOSE i \in User_select(us, email) : TRUE]

User_create(us, email, joined_on, password) ==
    Append(us, [id |-> Len(us) + 1, email |-> email, password |-> password,
                joined_on |-> joined_on])

Todo_exists(ts, pk) == pk \in 1..Len(ts)

\* mutant of Todo_save: the save rewrites the newest row when there is one
Todo_save_overwrites(ts, todo) ==
    IF ts = <<>>
    THEN <<[todo EXCEPT !.id = 1]>>
    ELSE [ts EXCEPT ![Len(ts)] = [todo EXCEPT !.id = Len(ts)]]

Todo_save(ts, todo) == Append(ts, [todo EXCEPT !.id = Len(ts) + 1])

\* Todo.update(is_done=status).execute(): Model.update is a class method and
\* the query has no WHERE clause, so it writes every row of the table.
Todo_update_is_done(ts, status) ==
    [i \in 1..Len(ts) |-> [ts[i] EXCEPT !.is_done = status]]

\* Todo.select().order_by(Todo.posted_on.asc()): the rows in some order that
\* is ascending in posted_on; rows with equal posted_on come in any order.
RowOrders(n) ==
    {p \in [1..n -> 1..n] : \A i, j \in 1..n : p[i] = p[j] => i = j}

\* mutant of Todo_select_order_by_posted_on: the rows in insertion order
Todo_select_order_by_id(ts) == {ts}

Todo_select_order_by_posted_on(ts) ==
    {[i \in 1..Len(ts) |-> ts[p[i]]] : p \in
        {q \in RowOrders(Len(ts)) :
            \A i, j \in 1..Len(ts) : i < j => ts[q[i]].posted_on <= ts[q[j]].posted_on}}

(***************************************************************************)
(* The auth gate.                                                          *)
(***************************************************************************)
\* mutant of check_auth: the password is not compared
check_auth_any_password(us, email, password) == User_select(us, email) # {}

check_auth(us, email, password) ==
    IF User_select(us, email) = {}
    THEN FALSE
    ELSE password = User_get(us, email).password

Unauthorized ==
    [status |-> 401,
     body |-> [message |-> "Please authenticate."],
     headers |-> [h \in {"WWW-Authenticate"} |-> "Basic realm=Example"]]

\* TRUE when the gate lets the request through to the wrapped handler
requires_auth(auth, us) ==
    ~(~auth.present \/ ~check_auth(us, auth.username, auth.password))

(***************************************************************************)
(* The handlers, as functions of the request and the tables: each gives    *)
(* the response and the tables it leaves.                                  *)
(***************************************************************************)
register(json, us, t) ==
    LET loaded == UserSchema_load(json)
    IN IF loaded.outcome = "KeyError"
       THEN [resp |-> Fault("KeyError"), users |-> us]
       ELSE IF loaded.outcome = "ValidationError"
       THEN [resp |-> Response(422, [errors |-> loaded.messages]), users |-> us]
       ELSE IF User_select(us, loaded.data.email) # {}
       THEN [resp |-> Response(400,
                        [errors |-> "That email address is already in the database"]),
             users |-> us]
       ELSE LET created == User_create(us, loaded.data.email, t, loaded.data.password)
                user == created[Len(created)]
                message == <<"Successfully created user: ", user.email>>
                data == [k \in {"user", "message"} |->
                            IF k = "message" THEN message
                            ELSE UserSchema_dump(user, {}).user]
            IN [resp |-> Response(201, data), users |-> created]

\* mutant of User_email_unique: the email column has no unique index
User_email_unique_off(us, email) == TRUE

\* unique=True on User.email: an insert of an email that some row has fails
User_email_unique(us, email) == User_select(us, email) = {}

\* register up to the answer of User.get: the load, the lookup
register_check(json, us) ==
    LET loaded == UserSchema_load(json)
    IN IF loaded.outcome = "KeyError"
       THEN [outcome |-> "respond", resp |-> Fault("KeyError")]
       ELSE IF loaded.outcome = "ValidationError"
       THEN [outcome |-> "respond", resp |-> Response(422, [errors |-> loaded.messages])]
       ELSE IF User_select(us, loaded.data.email) # {}
       THEN [outcome |-> "respond",
             resp |-> Response(400,
                        [errors |-> "That email address is already in the database"])]
       ELSE [outcome |-> "absent", data |-> loaded.data]

\* register from User.create on; the IntegrityError of the unique index is
\* not caught
register_create(data, us, t) ==
    IF ~User_email_unique(us, data.email)
    THEN [resp |-> Fault("IntegrityError"), users |-> us]
    ELSE LET created == User_create(us, data.email, t, data.password)
             user == created[Len(created)]
             message == <<"Successfully created user: ", user.email>>
             dumped == [k \in {"user", "message"} |->
                          IF k = "message" THEN message
                          ELSE UserSchema_dump(user, {}).user]
         IN [resp |-> Response(201, dumped), users |-> created]

get_todo(pk, us, ts) ==
    IF ~Todo_exists(ts, pk)
    THEN Fault("DoesNotExist")
    ELSE Response(200, todo_schema_dump(ts[pk], us))

\* mutant of toggle_status: the todo is marked done, not flipped
toggle_status_done(todo) == TRUE

toggle_status(todo) == ~todo.is_done

\* mutant of toggledone: the update runs although no todo was found
toggledone_writes_on_missing(pk, us, ts) ==
    IF ~Todo_exists(ts, pk)
    THEN [resp |-> Response(404, [message |-> "Todo could not be found"]),
          todos |-> Todo_update_is_done(ts, TRUE)]
    ELSE [resp |-> Response(200, todo_schema_dump(ts[pk], us)),
          todos |-> Todo_update_is_done(ts, toggle_status(ts[pk]))]

toggledone(pk, us, ts) ==
    IF ~Todo_exists(ts, pk)
    THEN [resp |-> Response(404, [message |-> "Todo could not be found"]), todos |-> ts]
    ELSE LET todo == ts[pk]
             status == toggle_status(todo)
         IN [resp |-> Response(200, todo_schema_dump(todo, us)),
             todos |-> Todo_update_is_done(ts, status)]

\* toggledone up to the answer of Todo.get
toggle_fetch(pk, ts) ==
    IF ~Todo_exists(ts, pk)
    THEN [outcome |-> "respond",
          resp |-> Response(404, [message |-> "Todo could not be found"])]
    ELSE [outcome |-> "fetched", todo |-> ts[pk]]

\* toggledone from the computation of status on, with the todo it fetched
toggle_update(todo, us, ts) ==
    [resp |-> Response(200, todo_schema_dump(todo, us)),
     todos |-> Todo_update_is_done(ts, toggle_status(todo))]

\* mutant of new_todo_load: the owner is not assigned
new_todo_load_no_owner(auth, json, us, utcnow) ==
    IF ~requires_auth(auth, us)
    THEN [outcome |-> "respond", resp |-> Unauthorized]
    ELSE LET loaded == TodoSchema_load(json, utcnow)
         IN IF loaded.outcome = "ValidationError"
            THEN [outcome |-> "respond",
                  resp |-> Response(422, [errors |-> loaded.messages])]
            ELSE [outcome |-> "loaded", todo |-> loaded.todo]

\* new_todo up to the assignment of the owner: the gate, the load
new_todo_load(auth, json, us, utcnow) ==
    IF ~requires_auth(auth, us)
    THEN [outcome |-> "respond", resp |-> Unauthorized]
    ELSE LET user == User_get(us, auth.username)
             loaded == TodoSchema_load(json, utcnow)
         IN IF loaded.outcome = "ValidationError"
            THEN [outcome |-> "respond",
                  resp |-> Response(422, [errors |-> loaded.messages])]
            ELSE IF loaded.todo = None
            THEN [outcome |-> "respond", resp |-> Fault("AttributeError")]
            ELSE [outcome |-> "loaded", todo |-> [loaded.todo EXCEPT !.user = user.id]]

\* new_todo from todo.save() on
new_todo_save(todo, us, ts) ==
    LET saved == Todo_save(ts, todo)
    IN [resp |-> Response(200, todo_schema_dump(saved[Len(saved)], us)), todos |-> saved]

new_todo(auth, json, us, ts, utcnow) ==
    LET loaded == new_todo_load(auth, json, us, utcnow)
    IN IF loaded.outcome = "respond"
       THEN [resp |-> loaded.resp, todos |-> ts]
       ELSE new_todo_save(loaded.todo, us, ts)

(***************************************************************************)
(* The state.                                                              *)
(*   users, todos  the two tables                                          *)
(*   now           the clock that datetime.now() and utcnow() read         *)
(*   last          the request a handler has just answered, with its       *)
(*                 response and the tables as they were when the handler   *)
(*                 started; NoRequest once the response has been returned  *)
(*   prev          history: whether the request answered before this one   *)
(*                 was a toggle that found its todo, and if so of which    *)
(*                 todo and what that todo's is_done was before it         *)
(*   unsaved       the new_todo requests in flight that have loaded their  *)
(*                 Todo and not yet saved it                               *)
(*   conns         the number of store connections that requests in        *)
(*                 progress hold open (each request has its own)           *)
(*   leaked        whether a request that has ended left its connection    *)
(*                 open                                                    *)
(*   threads       the requests that are served step by step, one store    *)
(*                 call at a time, each on a thread of its own             *)
(***************************************************************************)
NoRequest ==
    [op |-> "none", pk |-> 0, auth |-> NoAuth, json |-> NoJson,
     resp |-> Response(0, [none |-> TRUE]), preUsers |-> <<>>, preTodos |-> <<>>]

Request(op, pk, auth, json, resp) ==
    [op |-> op, pk |-> pk, auth |-> auth, json |-> json, resp |-> resp,
     preUsers |-> users, preTodos |-> todos]

NoToggle == [pk |-> 0, is_done |-> FALSE]

NoResponse == Response(0, [none |-> TRUE])

Threads == 1..MaxThreads

Idle ==
    [pc |-> "idle", op |-> "none", pk |-> 0, json |-> NoJson, obj |-> None,
     before |-> FALSE, resp |-> NoResponse]

\* g.db.connect(): the request opens its connection
before_request == conns' = conns + 1

Init ==
    /\ users = <<>>
    /\ todos = <<>>
    /\ now = 0
    /\ last = NoRequest
    /\ prev = NoToggle
    /\ unsaved = {}
    /\ conns = 0
    /\ leaked = FALSE
    /\ threads = [t \in Threads |-> Idle]

\* g.db.close(), and the response leaves the application
after_request ==
    /\ last # NoRequest
    /\ last' = NoRequest
    /\ prev' = IF last.op = "toggledone" /\ last.resp.status = 200
               THEN [pk |-> last.pk, is_done |-> last.preTodos[last.pk].is_done]
               ELSE NoToggle
    /\ conns' = conns - 1
    /\ UNCHANGED <<users, todos, now, unsaved, leaked, threads>>

\* The handler raised.  after_request functions run on the response of a
\* handler; whether they run on the error response the HTTP layer makes of
\* an unhandled exception depends on how the application is run (with
\* debug=True the exception propagates and they do not).  This is the case
\* in which they do not: the request ends and its connection stays open.
unhandled_exception ==
    /\ last # NoRequest
    /\ last.resp.status = 500
    /\ last' = NoRequest
    /\ prev' = NoToggle
    /\ conns' = conns - 1
    /\ leaked' = TRUE
    /\ UNCHANGED <<users, todos, now, unsaved, threads>>

RegisterFrom(payloads) ==
    /\ last = NoRequest
    /\ \E json \in payloads :
        LET r == register(json, users, now)
        IN /\ users' = r.users
           /\ last' = Request("register", 0, NoAuth, json, r.resp)
           /\ before_request
           /\ UNCHANGED <<todos, now, prev, unsaved, leaked, threads>>

Register == RegisterFrom(RegisterPayloads)

GetTodos ==
    /\ last = NoRequest
    /\ \E rows \in Todo_select_order_by_posted_on(todos) :
        /\ last' = Request("get_todos", 0, NoAuth, NoJson,
                           Response(200, todos_schema_dump(rows, users)))
        /\ before_request
        /\ UNCHANGED <<users, todos, now, prev, unsaved, leaked, threads>>

GetTodo ==
    /\ last = NoRequest
    /\ \E pk \in 1..(MaxTodos + 1) :
        /\ last' = Request("get_todo", pk, NoAuth, NoJson, get_todo(pk, users, todos))
        /\ before_request
        /\ UNCHANGED <<users, todos, now, prev, unsaved, leaked, threads>>

ToggleDone ==
    /\ last = NoRequest
    /\ \E pk \in 1..(MaxTodos + 1) :
        LET r == toggledone(pk, users, todos)
        IN /\ todos' = r.todos
           /\ last' = Request("toggledone", pk, NoAuth, NoJson, r.resp)
           /\ before_request
           /\ UNCHANGED <<users, now, prev, unsaved, leaked, threads>>

NewTodoFrom(auths, payloads) ==
    /\ last = NoRequest
    /\ \E auth \in auths, json \in payloads :
        LET r == new_todo(auth, json, users, todos, now)
        IN /\ Len(r.todos) <= MaxTodos
           /\ todos' = r.todos
           /\ last' = Request("new_todo", 0, auth, json, r.resp)
           /\ before_request
           /\ UNCHANGED <<users, now, prev, unsaved, leaked, threads>>

NewTodo == NewTodoFrom(AuthInputs, TodoPayloads)

(***************************************************************************)
(* Spec: the requests are served one at a time, within one reading of the  *)
(* clock.                                                                  *)
(***************************************************************************)
Next ==
    \/ Register
    \/ GetTodos
    \/ GetTodo
    \/ ToggleDone
    \/ NewTodo
    \/ after_request
    \/ unhandled_exception

Spec == Init /\ [][Next]_vars

(***************************************************************************)
(* SpecConc: the clock runs and new_todo requests overlap: between the     *)
(* load of a request (which stamps posted_on) and its save, other          *)
(* requests take their steps.                                              *)
(***************************************************************************)
ConcRegisterPayloads ==
    {[keys |-> {"email", "password"}, email |-> e, password |-> "secret1"] :
        e \in {EmailShouting, EmailOther}}

ConcAuthInputs ==
    {NoAuth} \cup
    {[present |-> TRUE, username |-> e, password |-> "secret1"] : e \in {EmailPlain, EmailOther}}

ConcTodoPayloads ==
    {[keys |-> {"content"}, content |-> "buy milk", done |-> FALSE],
     [keys |-> {}, content |-> "", done |-> FALSE]}

Tick ==
    /\ now < MaxTime
    /\ now' = now + 1
    /\ UNCHANGED <<users, todos, last, prev, unsaved, conns, leaked, threads>>

ConcRegister == RegisterFrom(ConcRegisterPayloads)

NewTodoLoad ==
    /\ last = NoRequest
    /\ before_request
    /\ \E auth \in ConcAuthInputs, json \in ConcTodoPayloads :
        LET r == new_todo_load(auth, json, users, now)
        IN IF r.outcome = "respond"
           THEN /\ last' = Request("new_todo", 0, auth, json, r.resp)
                /\ UNCHANGED <<users, todos, now, prev, unsaved, leaked, threads>>
           ELSE /\ Cardinality(unsaved) < MaxUnsaved
                /\ [auth |-> auth, json |-> json, todo |-> r.todo] \notin unsaved
                /\ unsaved' = unsaved \cup {[auth |-> auth, json |-> json, todo |-> r.todo]}
                /\ UNCHANGED <<users, todos, now, last, prev, leaked, threads>>

NewTodoSave ==
    /\ last = NoRequest
    /\ Len(todos) < MaxTodos
    /\ \E u \in unsaved :
        LET r == new_todo_save(u.todo, users, todos)
        IN /\ todos' = r.todos
           /\ unsaved' = unsaved \ {u}
           /\ last' = Request("new_todo", 0, u.auth, u.json, r.resp)
           /\ UNCHANGED <<users, now, prev, conns, leaked, threads>>

ConcNext ==
    \/ Tick
    \/ ConcRegister
    \/ NewTodoLoad
    \/ NewTodoSave
    \/ GetTodos
    \/ after_request

SpecConc == Init /\ [][ConcNext]_vars


(***************************************************************************)
(* SpecRace: register and toggledone requests served on threads of their   *)
(* own, one store call (get, create, update) per step, so that the calls   *)
(* of different requests interleave.  Each thread serves one request.  A   *)
(* user and todos to work on come from a register and new_todo requests    *)
(* served in one step.                                                     *)
(***************************************************************************)
RaceSetupPayloads ==
    {[keys |-> {"email", "password"}, email |-> EmailOther, password |-> "secret1"]}

RaceAuthInputs == {[present |-> TRUE, username |-> EmailOther, password |-> "secret1"]}

RaceTodoPayloads ==
    {[keys |-> {"content"}, content |-> "buy milk", done |-> FALSE],
     [keys |-> {"content", "done"}, content |-> "buy milk", done |-> TRUE]}

RaceRegisterPayloads ==
    {[keys |-> {"email", "password"}, email |-> e, password |-> "secret1"] :
        e \in {EmailPlain, EmailShouting}}

\* The request of a thread ends with response resp: after_request closes its
\* connection, unless the response is that of an unhandled exception and
\* after_request is skipped.
ThreadEnds(resp) ==
    \E ran \in BOOLEAN :
        /\ ran \/ resp.status = 500
        /\ leaked' = (leaked \/ ~ran)

Found(t) == threads[t].op = "toggledone" /\ threads[t].pc \in {"fetched", "done"}
                /\ (threads[t].pc = "done" => threads[t].resp.status = 200)

\* history: the is_done of todo pk before the toggles of it that the threads
\* other than t have begun
BeforeToggles(t, pk) ==
    LET earlier == {u \in Threads \ {t} : Found(u) /\ threads[u].pk = pk}
    IN IF earlier = {}
       THEN todos[pk].is_done
       ELSE threads[CHOOSE u \in earlier : TRUE].before

RaceRegister == RegisterFrom(RaceSetupPayloads)

RaceNewTodo == NewTodoFrom(RaceAuthInputs, RaceTodoPayloads)

StartRegister ==
    /\ last = NoRequest
    /\ \E t \in Threads, json \in RaceRegisterPayloads :
        /\ threads[t].pc = "idle"
        /\ LET r == register_check(json, users)
           IN IF r.outcome = "respond"
              THEN /\ threads' = [threads EXCEPT ![t] =
                         [Idle EXCEPT !.pc = "done", !.op = "register", !.json = json,
                                      !.resp = r.resp]]
                   /\ ThreadEnds(r.resp)
                   /\ UNCHANGED conns
              ELSE /\ threads' = [threads EXCEPT ![t] =
                         [Idle EXCEPT !.pc = "checked", !.op = "register", !.json = json,
                                      !.obj = r.data]]
                   /\ before_request
                   /\ UNCHANGED leaked
    /\ UNCHANGED <<users, todos, now, last, prev, unsaved>>

FinishRegister ==
    /\ last = NoRequest
    /\ \E t \in Threads :
        /\ threads[t].pc = "checked"
        /\ LET r == register_create(threads[t].obj, users, now)
           IN /\ users' = r.users
              /\ threads' = [threads EXCEPT ![t].pc = "done", ![t].resp = r.resp]
              /\ ThreadEnds(r.resp)
              /\ conns' = conns - 1
    /\ UNCHANGED <<todos, now, last, prev, unsaved>>

StartToggle ==
    /\ last = NoRequest
    /\ \E t \in Threads, pk \in 1..(MaxTodos + 1) :
        /\ threads[t].pc = "idle"
        /\ LET r == toggle_fetch(pk, todos)
           IN IF r.outcome = "respond"
              THEN /\ threads' = [threads EXCEPT ![t] =
                         [Idle EXCEPT !.pc = "done", !.op = "toggledone", !.pk = pk,
                                      !.resp = r.resp]]
                   /\ ThreadEnds(r.resp)
                   /\ UNCHANGED conns
              ELSE /\ threads' = [threads EXCEPT ![t] =
                         [Idle EXCEPT !.pc = "fetched", !.op = "toggledone", !.pk = pk,
                                      !.obj = r.todo, !.before = BeforeToggles(t, pk)]]
                   /\ before_request
                   /\ UNCHANGED leaked
    /\ UNCHANGED <<users, todos, now, last, prev, unsaved>>

FinishToggle ==
    /\ last = NoRequest
    /\ \E t \in Threads :
        /\ threads[t].pc = "fetched"
        /\ LET r == toggle_update(threads[t].obj, users, todos)
           IN /\ todos' = r.todos
              /\ threads' = [threads EXCEPT ![t].pc = "done", ![t].resp = r.resp]
              /\ ThreadEnds(r.resp)
              /\ conns' = conns - 1
    /\ UNCHANGED <<users, now, last, prev, unsaved>>

RaceNext ==
    \/ RaceRegister
    \/ RaceNewTodo
    \/ StartRegister
    \/ FinishRegister
    \/ StartToggle
    \/ FinishToggle
    \/ after_request

SpecRace == Init /\ [][RaceNext]_vars

(***************************************************************************)
(* The claims.  Each is a predicate on the state a handler leaves: `last`  *)
(* holds the request and its response, last.preUsers and last.preTodos the *)
(* tables before the handler ran, users and todos the tables after it.     *)
(***************************************************************************)
Status == last.resp.status
Body == last.resp.body

Ids(rows) == 1..Len(rows)

SameEmail(a, b) == lower(strip(a)) = lower(strip(b))

ValidRegistration(json) ==
    /\ json.keys = {"email", "password"}
    /\ validate_Email(lower(strip(json.email)))
    /\ validate_Length(json.password)

EmailTaken(us, email) == \E i \in Ids(us) : SameEmail(us[i].email, email)

\* C1: a valid registration whose normalized email is not stored is answered
\* 201, its response has no password field and the user is stored under the
\* lower-cased, trimmed email; a valid registration whose email equals a
\* stored (earlier registered) one ignoring case and surrounding whitespace
\* is answered 400 and adds no user.
C1_RegisterOnceThenConflict ==
    (last.op = "register" /\ ValidRegistration(last.json)) =>
        IF EmailTaken(last.preUsers, last.json.email)
        THEN /\ Status = 400
             /\ users = last.preUsers
        ELSE /\ Status = 201
             /\ "password" \notin DOMAIN Body.user
             /\ Len(users) = Len(last.preUsers) + 1
             /\ SubSeq(users, 1, Len(last.preUsers)) = last.preUsers
             /\ users[Len(users)].email = lower(strip(last.json.email))

\* C1 witness: a conflict answered to an email that differs from the stored
\* one in case and surrounding whitespace.
C1_Witness ==
    /\ last.op = "register"
    /\ Status = 400
    /\ \A i \in Ids(users) : users[i].email # last.json.email
    /\ \E i \in Ids(users) : SameEmail(users[i].email, last.json.email)

AuthFails(auth, us) ==
    \/ ~auth.present
    \/ \A i \in Ids(us) : us[i].email # auth.username
    \/ \E i \in Ids(us) : us[i].email = auth.username /\ us[i].password # auth.password

\* C2: a create-todo request without credentials, with an identifier that is
\* no stored email, or with a secret that is not the stored password is
\* answered 401 with the challenge header, and no todo is stored.
C2_AuthFailsClosed ==
    (last.op = "new_todo" /\ AuthFails(last.auth, last.preUsers)) =>
        /\ Status = 401
        /\ "WWW-Authenticate" \in DOMAIN last.resp.headers
        /\ todos = last.preTodos
        /\ users = last.preUsers

\* C2 witness: the identifier is a stored email, the secret is wrong, the
\* payload is one that would have been stored.
C2_Witness ==
    /\ last.op = "new_todo"
    /\ last.auth.present
    /\ \E i \in Ids(users) :
          users[i].email = last.auth.username /\ users[i].password # last.auth.password
    /\ "content" \in last.json.keys
    /\ Status = 401

\* C3: a create-todo request with valid credentials and a payload that has a
\* content adds exactly one todo: its owner is the stored user whose email is
\* the identifier, its content the payload's, its is_done the payload's done
\* (false when absent); the response is that todo under the key "todo".
C3_TodoCreated ==
    (last.op = "new_todo" /\ ~AuthFails(last.auth, last.preUsers)
        /\ "content" \in last.json.keys) =>
        /\ Status = 200
        /\ Len(todos) = Len(last.preTodos) + 1
        /\ SubSeq(todos, 1, Len(last.preTodos)) = last.preTodos
        /\ LET todo == todos[Len(todos)]
           IN /\ todo.id = Len(todos)
              /\ todo.user \in Ids(users)
              /\ users[todo.user].email = last.auth.username
              /\ todo.content = last.json.content
              /\ todo.is_done = (IF "done" \in last.json.keys THEN last.json.done ELSE FALSE)
              /\ DOMAIN Body = {"todo"}
              /\ Body.todo.id = todo.id
              /\ Body.todo.content = todo.content
              /\ Body.todo.done = todo.is_done
              /\ Body.todo.posted_on = todo.posted_on
              /\ Body.todo.user.user.id = todo.user
              /\ Body.todo.user.user.email = last.auth.username

\* C3 witness: the second user creates a todo that is already done.
C3_Witness ==
    /\ last.op = "new_todo"
    /\ Status = 200
    /\ "done" \in last.json.keys
    /\ last.json.done
    /\ Len(users) = 2
    /\ todos[Len(todos)].user = 2

\* C4: get-todo of an id that no stored todo has is answered 404 with an
\* error body, and the tables are unchanged.
C4_GetTodoNotFound ==
    (last.op = "get_todo" /\ last.pk \notin Ids(last.preTodos)) =>
        /\ Status = 404
        /\ "errors" \in DOMAIN Body
        /\ todos = last.preTodos
        /\ users = last.preUsers

\* C5: a toggle that finds its todo stores the negation of the todo's
\* is_done, and the done of the todo in its response is the stored is_done.
C5_ToggleResponseIsUpdated ==
    (last.op = "toggledone" /\ Status = 200) =>
        /\ todos[last.pk].is_done = ~last.preTodos[last.pk].is_done
        /\ Body.todo.id = last.pk
        /\ Body.todo.done = todos[last.pk].is_done

\* C6: after two toggles of the same todo in a row, with no request between
\* them, the todo's is_done is what it was before the first.
C6_ToggleTwice ==
    (last.op = "toggledone" /\ Status = 200 /\ prev.pk = last.pk) =>
        todos[last.pk].is_done = prev.is_done

\* C6 witness: the second of two toggles of one todo, another todo stored.
C6_Witness ==
    /\ last.op = "toggledone"
    /\ Status = 200
    /\ prev.pk = last.pk
    /\ Len(todos) >= 2

ViolatingFields(json) ==
    {f \in {"email"} :
        "email" \notin json.keys \/ ~validate_Email(lower(strip(json.email)))}
    \cup
    {f \in {"password"} :
        "password" \notin json.keys \/ ~validate_Length(json.password)}

\* C7: a register payload that breaks a User field rule (email absent or not
\* an address, password absent or of a length outside 6..36) is answered 422
\* with errors keyed by exactly the fields in violation, and no user is
\* stored.
C7_RegisterRejected ==
    (last.op = "register" /\ ViolatingFields(last.json) # {}) =>
        /\ Status = 422
        /\ DOMAIN Body.errors = ViolatingFields(last.json)
        /\ users = last.preUsers

\* C8: an authenticated create-todo whose payload has no content is answered
\* 422, its errors name the content field, and no todo is stored.
C8_MissingContent ==
    (last.op = "new_todo" /\ ~AuthFails(last.auth, last.preUsers)
        /\ "content" \notin last.json.keys) =>
        /\ Status = 422
        /\ "content" \in DOMAIN Body.errors
        /\ todos = last.preTodos

\* C8 witness: the payload is not empty: it has a done and no content.
C8_Witness ==
    /\ last.op = "new_todo"
    /\ Status = 422
    /\ last.json.keys = {"done"}
    /\ Len(users) >= 1

\* C9: list-todos returns every stored todo exactly once, in non-decreasing
\* order of posted_on.
C9_ListedInPostedOrder ==
    (last.op = "get_todos") =>
        LET rows == Body.todos
        IN /\ Status = 200
           /\ Len(rows) = Len(last.preTodos)
           /\ \A pk \in Ids(last.preTodos) :
                 /\ Cardinality({i \in Ids(rows) : rows[i].id = pk}) = 1
                 /\ \E i \in Ids(rows) :
                       rows[i] = TodoSchema_serialize(last.preTodos[pk], last.preUsers)
           /\ \A i, j \in Ids(rows) : i < j => rows[i].posted_on <= rows[j].posted_on

\* C9 witness: a list of todos that were saved in another order than they
\* were stamped.
C9_Witness ==
    /\ last.op = "get_todos"
    /\ \E i, j \in Ids(last.preTodos) :
          i < j /\ last.preTodos[i].posted_on > last.preTodos[j].posted_on

Passwords ==
    {users[i].password : i \in Ids(users)}
    \cup {last.json.password : k \in {f \in {"password"} : f \in last.json.keys}}

UserDumpHasPassword(d) ==
    \/ "password" \in DOMAIN d
    \/ \E f \in DOMAIN d \ {"id", "joined_on", "email"} : d[f] \in Passwords

TodoDumpHasPassword(d) ==
    \/ "password" \in DOMAIN d
    \/ d.content \in Passwords
    \/ "password" \in DOMAIN d.user
    \/ UserDumpHasPassword(d.user.user)

BodyHasPassword(body) ==
    \/ "password" \in DOMAIN body
    \/ "user" \in DOMAIN body /\ UserDumpHasPassword(body.user)
    \/ "todo" \in DOMAIN body /\ TodoDumpHasPassword(body.todo)
    \/ "todos" \in DOMAIN body
         /\ \E i \in Ids(body.todos) : TodoDumpHasPassword(body.todos[i])
    \/ "message" \in DOMAIN body /\ last.op # "register" /\ body.message \in Passwords
    \/ "errors" \in DOMAIN body /\ Status = 400 /\ body.errors \in Passwords
    \/ "errors" \in DOMAIN body /\ Status = 422
         /\ \E f \in DOMAIN body.errors :
               \E i \in Ids(body.errors[f]) : body.errors[f][i] \in Passwords

\* C10: no response body of any of the five operations holds a password: not
\* as a field of a user or of the owner summary nested in a todo, and not as
\* a value.
C10_NoPasswordInBody ==
    (last.op # "none") => ~BodyHasPassword(Body)

\* C10 witness: a list whose todos carry their owners' summaries.
C10_Witness ==
    /\ last.op = "get_todos"
    /\ Len(Body.todos) >= 2
    /\ \E i \in Ids(users) : users[i].password = "secret1"

\* C11: a toggle of an id that no stored todo has is answered 404 and leaves
\* the is_done of every stored todo as it was.
C11_ToggleNotFound ==
    (last.op = "toggledone" /\ last.pk \notin Ids(last.preTodos)) =>
        /\ Status = 404
        /\ Len(todos) = Len(last.preTodos)
        /\ \A i \in Ids(last.preTodos) : todos[i].is_done = last.preTodos[i].is_done

\* C11 witness: the 404 is answered while a todo that is not done is stored.
C11_Witness ==
    /\ last.op = "toggledone"
    /\ Status = 404
    /\ \E i \in Ids(todos) : ~todos[i].is_done

\* C13: every stored todo has one owner, and the owner is a stored user.
C13_TodoHasStoredOwner ==
    \A i \in Ids(todos) :
        /\ todos[i].user \in Ids(users)
        /\ users[todos[i].user].id = todos[i].user

\* C13 witness: todos of two different owners are stored.
C13_Witness ==
    \E i, j \in Ids(todos) : todos[i].user = 1 /\ todos[j].user = 2

\* C14: a toggle that finds its todo changes the is_done of that todo and
\* nothing else: not the is_done of another todo, not another field, no user.
C14_ToggleChangesOneField ==
    (last.op = "toggledone" /\ Status = 200) =>
        /\ users = last.preUsers
        /\ Len(todos) = Len(last.preTodos)
        /\ \A i \in Ids(last.preTodos) :
              IF i = last.pk
              THEN todos[i] = [last.preTodos[i] EXCEPT !.is_done = todos[i].is_done]
              ELSE todos[i] = last.preTodos[i]

\* C18: in every step every stored user is kept as it is, and every stored
\* todo is kept with its id, content, owner and posted_on: is_done is the
\* only field of a stored row that a step changes.
C18_RowsKept ==
    [][/\ \A i \in Ids(users) : i \in Ids(users') /\ users'[i] = users[i]
       /\ \A i \in Ids(todos) :
             /\ i \in Ids(todos')
             /\ todos'[i] = [todos[i] EXCEPT !.is_done = todos'[i].is_done]]_vars

\* C18 witness: a toggle has been answered with two users and two todos
\* stored.
C18_Witness ==
    /\ last.op = "toggledone"
    /\ Status = 200
    /\ Len(users) = 2
    /\ Len(todos) = 2

\* C16: the connection a request opens is closed when the request ends,
\* whatever its outcome: no ended request has left its connection open, and
\* when no request is in progress no connection is open.
C16_ConnectionClosed ==
    /\ ~leaked
    /\ (last = NoRequest /\ unsaved = {}) => conns = 0

Registered(t) == threads[t].op = "register" /\ threads[t].pc = "done"

\* C12: no two stored users have the same email; every stored email is in
\* lower case and trimmed, and a register that created a user stored the
\* lower-cased, trimmed form of the email it was sent: in every state, the
\* store calls of the register requests interleaved freely.
C12_EmailsUniqueNormalized ==
    /\ \A i, j \in Ids(users) : users[i].email = users[j].email => i = j
    /\ \A i \in Ids(users) : users[i].email = lower(strip(users[i].email))
    /\ \A t \in Threads :
          (Registered(t) /\ threads[t].resp.status = 201) =>
              /\ threads[t].resp.body.user.email = lower(strip(threads[t].json.email))
              /\ \E i \in Ids(users) :
                    /\ users[i].id = threads[t].resp.body.user.id
                    /\ users[i].email = lower(strip(threads[t].json.email))
    /\ (last.op = "register" /\ Status = 201) =>
          \E i \in Ids(users) :
              /\ users[i].id = Body.user.id
              /\ users[i].email = lower(strip(last.json.email))

\* C12 witness: two registers of one email, differently written, both found
\* the email absent; one created the user, the other's create was refused.
C12_Witness ==
    \E a, b \in Threads :
        /\ Registered(a) /\ Registered(b)
        /\ threads[a].json.email # threads[b].json.email
        /\ threads[a].resp.status = 201
        /\ threads[b].resp.status = 500
        /\ Len(users) = 2

\* C15: of two register requests with the same normalized email, their store
\* calls interleaved in any way, one creates the user and is answered 201 and
\* the other is answered 400; neither ends in an unhandled fault.
C15_OneCreatedOneConflict ==
    \A a, b \in Threads :
        (/\ a # b
         /\ Registered(a) /\ Registered(b)
         /\ SameEmail(threads[a].json.email, threads[b].json.email)
         /\ \A c \in Threads \ {a, b} : threads[c].op # "register") =>
            /\ {threads[a].resp.status, threads[b].resp.status} = {201, 400}
            /\ Cardinality({i \in Ids(users) :
                               SameEmail(users[i].email, threads[a].json.email)}) = 1

\* C17: after two toggles of one stored todo, their store calls interleaved
\* in any way, have both completed, the todo's is_done is what it was before
\* them.
C17_NoToggleLost ==
    \A a, b \in Threads :
        (/\ a # b
         /\ Found(a) /\ Found(b)
         /\ threads[a].pc = "done" /\ threads[b].pc = "done"
         /\ threads[a].pk = threads[b].pk
         /\ \A c \in Threads \ {a, b} : threads[c].op # "toggledone") =>
            todos[threads[a].pk].is_done = threads[a].before

====
